---- MODULE Spec2Model ----
(***************************************************************************)
(* A model of the Lox front end: the character cursor (Source), the lexer  *)
(* (Lexer), the precedence tiers (operator.rs) and the recursive-descent   *)
(* parser (Parser).  Every function of the code is an operator computed    *)
(* the way the code computes it; the specifications draw a source text or  *)
(* a token sequence from a bounded set and run the code's steps on it.     *)
(***************************************************************************)
EXTENDS Naturals, Integers, Sequences, FiniteSets, TLC

VARIABLES
  lexer,         \* Lexer: its Source (source, characters, position)
  source_call,   \* the Source method called last and what it returned
  items,         \* every item the Lexer iterator has yielded so far, in order
  tokens,        \* Lexer::lex: the Ok half of partition_result
  errors,        \* Lexer::lex: the Err half of partition_result
  lex_result,    \* what Lexer::lex returned, once it has
  token_slice,   \* the token slice Parser::new is given
  literal_impl,  \* which of the two Token::is_literal definitions the build keeps
  parser,        \* Option<Parser>: the token cursor and the position field
  parse_call,    \* the Parser routine called last, and on how many tokens consumed
  parse_result,  \* what the Parser routine called last returned
  operator       \* what the last Parser::next_if_<tier>_operator returned

vars == <<lexer, source_call, items, tokens, errors, lex_result,
          token_slice, literal_impl, parser, parse_call, parse_result,
          operator>>

lexer_vars == <<lexer, source_call, items, tokens, errors, lex_result>>
parser_vars ==
  <<token_slice, literal_impl, parser, parse_call, parse_result, operator>>

\* ------------------------------------------------------------------------
\* Bounds of the model
\* ------------------------------------------------------------------------

\* Longest source text drawn over the whole modelled alphabet.
ShortLen == 2
\* Longest source text drawn over the core alphabet.
MaxLen == 5
\* Longest token slice drawn over every token type for the tier routines.
ShortTokens == 2
\* Longest token slice drawn over every token type for the parse routines.
SingleTokens == 1
\* Longest token slice drawn over the core token types.
MaxTokens == 4
\* Most binary operators in a token slice of numbers joined by operators.
JoinedOperators == 3
\* Longest token slice drawn over numbers and the prefix operators.
ChainTokens == 6
\* Longest source text drawn over the characters of the comparison operators.
OperatorLen == 3
\* Longest source text the Source's methods are called on one by one.
SourceLen == 3

\* ------------------------------------------------------------------------
\* Characters.  A character is a one-character string; the two non-ASCII
\* characters are named by their code point.
\* ------------------------------------------------------------------------

LF == "\n"
QUOTE == "\""
\* U+00E9 (e acute): alphabetic, two bytes in UTF-8.
EACUTE == "U+00E9"
\* U+00BD (vulgar fraction one half): numeric, two bytes in UTF-8.
HALF == "U+00BD"

\* char::is_whitespace, char::is_numeric, char::is_alphabetic and
\* char::is_alphanumeric on the modelled alphabet.
Whitespace == {" ", LF}
Numeric == {"1", HALF}
Alphabetic == {"a", "o", "r", EACUTE}
Alphanumeric == Alphabetic \cup Numeric

SymbolChars == {"(", ")", "{", "}", ",", ".", ";", "+", "-", "*", "/",
                "!", "=", "<", ">"}

Alphabet == Whitespace \cup Numeric \cup Alphabetic \cup SymbolChars
              \cup {QUOTE, "_", "^"}

CoreAlphabet == {" ", LF, "/", QUOTE, "1", ".", "a", "^"}

\* The number of bytes of a character's UTF-8 encoding.
Utf8Len(c) == IF c \in {EACUTE, HALF} THEN 2 ELSE 1

SeqsUpTo(S, n) == UNION {[1..k -> S] : k \in 0..n}

\* The characters of the one- and two-character operators, and the space.
OperatorAlphabet == {"!", "=", ">", "<", " "}

Sources ==
  SeqsUpTo(Alphabet, ShortLen) \cup SeqsUpTo(CoreAlphabet, MaxLen)
    \cup SeqsUpTo(OperatorAlphabet, OperatorLen)

\* ------------------------------------------------------------------------
\* str: byte offsets and slicing (&source[a..b])
\* ------------------------------------------------------------------------

RECURSIVE ByteOffset(_, _)
\* The byte offset at which character number i (0-based) of text starts.
ByteOffset(text, i) ==
  IF i = 0 THEN 0 ELSE ByteOffset(text, i - 1) + Utf8Len(text[i])

ByteLen(text) == ByteOffset(text, Len(text))

IsCharBoundary(text, b) == \E i \in 0..Len(text) : ByteOffset(text, i) = b

\* &text[a..b]: panics unless a <= b <= len and both lie on character
\* boundaries; otherwise the characters between the two byte offsets.
StrSlice(text, a, b) ==
  IF a > b \/ b > ByteLen(text)
     \/ ~IsCharBoundary(text, a) \/ ~IsCharBoundary(text, b)
  THEN [panic |-> TRUE]
  ELSE LET i == CHOOSE k \in 0..Len(text) : ByteOffset(text, k) = a
           j == CHOOSE k \in 0..Len(text) : ByteOffset(text, k) = b
       IN [panic |-> FALSE, value |-> SubSeq(text, i + 1, j)]

\* ------------------------------------------------------------------------
\* lexer/source.rs: Position and Source
\* ------------------------------------------------------------------------

Position_default == [line |-> 0, column |-> 0, index |-> 0]

move_to_next_column(p) ==
  [p EXCEPT !.column = @ + 1, !.index = @ + 1]

\* move_to_next_line with the bug of leaving the column as it is.
move_to_next_line_keeping_column(p) ==
  [line |-> p.line + 1, column |-> p.column, index |-> p.index + 1]

move_to_next_line(p) ==
  [line |-> p.line + 1, column |-> 0, index |-> p.index + 1]

Source_new(text) ==
  [source |-> text, characters |-> text, position |-> Position_default]

\* Source::peek
Source_peek(s) ==
  IF s.characters = <<>> THEN [some |-> FALSE]
  ELSE [some |-> TRUE, character |-> Head(s.characters)]

\* Iterator for Source: next
Source_next(s) ==
  IF s.characters = <<>> THEN [some |-> FALSE, src |-> s]
  ELSE LET character == Head(s.characters)
       IN [some |-> TRUE, position |-> s.position, character |-> character,
           src |-> [s EXCEPT !.characters = Tail(@),
                             !.position = IF character = LF
                                          THEN move_to_next_line(@)
                                          ELSE move_to_next_column(@)]]

\* Source::next_if; the predicate is the set of characters it accepts.
Source_next_if(s, accepted) ==
  LET next_character == Source_peek(s)
  IN IF ~next_character.some THEN [some |-> FALSE, src |-> s]
     ELSE IF next_character.character \notin accepted
          THEN [some |-> FALSE, src |-> s]
          ELSE Source_next(s)

\* Source::consume_if
consume_if(s, accepted) ==
  LET r == Source_next_if(s, accepted)
  IN [ok |-> r.some, src |-> r.src]

next_if_character(s, expected) == Source_next_if(s, {expected})

consume_if_character(s, expected) ==
  LET r == next_if_character(s, expected)
  IN [ok |-> r.some, src |-> r.src]

next_if_not_character(s, expected) ==
  Source_next_if(s, Alphabet \ {expected})

consume_if_not_character(s, expected) ==
  LET r == next_if_not_character(s, expected)
  IN [ok |-> r.some, src |-> r.src]

RECURSIVE consume_while(_, _)
\* while self.source.consume_if(predicate) {}
consume_while(s, accepted) ==
  LET r == consume_if(s, accepted)
  IN IF r.ok THEN consume_while(r.src, accepted) ELSE r.src

RECURSIVE consume_while_not_character(_, _)
\* while self.source.consume_if_not_character(expected) {}
consume_while_not_character(s, expected) ==
  LET r == consume_if_not_character(s, expected)
  IN IF r.ok THEN consume_while_not_character(r.src, expected) ELSE r.src

\* ------------------------------------------------------------------------
\* lexer/token.rs: Token, TokenType, Keyword
\* ------------------------------------------------------------------------

Keywords == {"And", "Class", "Else", "False", "Fun", "For", "If", "Nil", "Or",
             "Print", "Return", "Super", "This", "True", "Var", "While"}

\* strum's EnumString with serialize_all = "lowercase": each keyword's spelling.
KeywordSpelling(k) ==
  CASE k = "And"    -> <<"a", "n", "d">>
    [] k = "Class"  -> <<"c", "l", "a", "s", "s">>
    [] k = "Else"   -> <<"e", "l", "s", "e">>
    [] k = "False"  -> <<"f", "a", "l", "s", "e">>
    [] k = "Fun"    -> <<"f", "u", "n">>
    [] k = "For"    -> <<"f", "o", "r">>
    [] k = "If"     -> <<"i", "f">>
    [] k = "Nil"    -> <<"n", "i", "l">>
    [] k = "Or"     -> <<"o", "r">>
    [] k = "Print"  -> <<"p", "r", "i", "n", "t">>
    [] k = "Return" -> <<"r", "e", "t", "u", "r", "n">>
    [] k = "Super"  -> <<"s", "u", "p", "e", "r">>
    [] k = "This"   -> <<"t", "h", "i", "s">>
    [] k = "True"   -> <<"t", "r", "u", "e">>
    [] k = "Var"    -> <<"v", "a", "r">>
    [] k = "While"  -> <<"w", "h", "i", "l", "e">>

\* Keyword::try_from(&str)
Keyword_try_from(value) ==
  IF \E k \in Keywords : KeywordSpelling(k) = value
  THEN [ok |-> TRUE, keyword |-> CHOOSE k \in Keywords : KeywordSpelling(k) = value]
  ELSE [ok |-> FALSE]

\* The TokenType variants without a payload.
PlainTypes == {"OpenParanthesis", "CloseParanthesis", "OpenBrace", "CloseBrace",
               "Comma", "Dot", "Semicolon", "Plus", "Minus", "Multiply",
               "Divide", "Assign", "Not", "NotEquals", "Equals", "GreaterThan",
               "GreaterThanOrEquals", "LessThan", "LessThanOrEquals"}

Plain(tag) == [tag |-> tag]
\* The variants with a payload; each names its payload's field after itself.
TypeString(value) == [tag |-> "String", string |-> value]
TypeNumber(value) == [tag |-> "Number", number |-> value]
TypeIdentifier(value) == [tag |-> "Identifier", identifier |-> value]
TypeKeyword(keyword) == [tag |-> "Keyword", keyword |-> keyword]

\* Token::new
Token_new(type, position) == [type |-> type, position |-> position]

\* ------------------------------------------------------------------------
\* str::parse::<f64> on a lexeme of lex_number: digits, optionally a '.'
\* and digits.  Only ASCII digits parse; the value is mantissa / 10^scale with
\* the trailing zeros of the fraction dropped.
\* ------------------------------------------------------------------------

AsciiDigits == {"0", "1", "2", "3", "4", "5", "6", "7", "8", "9"}

DigitValue(c) ==
  CASE c = "0" -> 0 [] c = "1" -> 1 [] c = "2" -> 2 [] c = "3" -> 3
    [] c = "4" -> 4 [] c = "5" -> 5 [] c = "6" -> 6 [] c = "7" -> 7
    [] c = "8" -> 8 [] c = "9" -> 9

RECURSIVE DigitsValue(_)
DigitsValue(ds) ==
  IF ds = <<>> THEN 0
  ELSE DigitsValue(SubSeq(ds, 1, Len(ds) - 1)) * 10 + DigitValue(ds[Len(ds)])

RECURSIVE Normalize(_, _)
Normalize(mantissa, scale) ==
  IF scale > 0 /\ mantissa % 10 = 0
  THEN Normalize(mantissa \div 10, scale - 1)
  ELSE [mantissa |-> mantissa, scale |-> scale]

ParseF64(value) ==
  LET dots == {i \in 1..Len(value) : value[i] = "."}
      digits == SelectSeq(value, LAMBDA c : c # ".")
  IN IF Cardinality(dots) > 1 \/ digits = <<>>
        \/ \E i \in 1..Len(digits) : digits[i] \notin AsciiDigits
     THEN [ok |-> FALSE]
     ELSE LET scale == IF dots = {} THEN 0
                       ELSE Len(value) - (CHOOSE i \in dots : TRUE)
          IN [ok |-> TRUE, value |-> Normalize(DigitsValue(digits), scale)]

\* ------------------------------------------------------------------------
\* lexer/mod.rs: the Lexer iterator.  Every lex_* operator returns the item
\* the iterator yields and the Source as the call leaves it.
\* ------------------------------------------------------------------------

None == [kind |-> "None"]
Panic == [kind |-> "Panic"]
ItemOk(token) == [kind |-> "Ok", token |-> token]
ItemErr(position, type) ==
  [kind |-> "Err", error |-> [position |-> position, type |-> type]]

Yield(item, s) == [item |-> item, src |-> s]

\* Lexer::consume_whitespaces
consume_whitespaces(s) == consume_while(s, Whitespace)

\* Lexer::consume_comment
consume_comment(s) == consume_while_not_character(s, LF)

\* Lexer::lex_string
lex_string(s) ==
  LET open == next_if_character(s, QUOTE)
  IN IF ~open.some THEN Yield(None, open.src)
     ELSE
       LET start == open.position
           body == consume_while_not_character(open.src, QUOTE)
           value == StrSlice(body.source, start.index + 1, body.position.index)
           close == next_if_character(body, QUOTE)
       IN IF value.panic THEN Yield(Panic, body)
          ELSE IF ~close.some
               THEN Yield(ItemErr(start, "UnterminatedString"), close.src)
               ELSE Yield(ItemOk(Token_new(TypeString(value.value), start)),
                          close.src)

\* Lexer::lex_number
lex_number(s) ==
  LET first == Source_next_if(s, Numeric)
  IN IF ~first.some THEN Yield(None, first.src)
     ELSE
       LET start == first.position
           integral == consume_while(first.src, Numeric)
           dot == consume_if_character(integral, ".")
           fraction == Source_next_if(dot.src, Numeric)
           matched == IF dot.ok THEN consume_while(fraction.src, Numeric)
                      ELSE dot.src
           value == StrSlice(matched.source, start.index, matched.position.index)
       IN IF dot.ok /\ ~fraction.some
          THEN Yield(ItemErr(start, "NumberHasNoFractionalPart"), fraction.src)
          ELSE IF value.panic THEN Yield(Panic, matched)
          ELSE LET parsed == ParseF64(value.value)
               IN IF ~parsed.ok
                  THEN Yield(ItemErr(start, "FailedParsingNumber"), matched)
                  ELSE Yield(ItemOk(Token_new(TypeNumber(parsed.value), start)),
                             matched)

\* Lexer::lex_keyword_or_identifier
lex_keyword_or_identifier(s) ==
  LET first == Source_next_if(s, Alphabetic)
  IN IF ~first.some THEN Yield(None, first.src)
     ELSE
       LET start == first.position
           matched == consume_while(first.src, Alphanumeric \cup {"_"})
           value == StrSlice(matched.source, start.index, matched.position.index)
       IN IF value.panic THEN Yield(Panic, matched)
          ELSE LET keyword == Keyword_try_from(value.value)
               IN IF keyword.ok
                  THEN Yield(ItemOk(Token_new(TypeKeyword(keyword.keyword), start)),
                             matched)
                  ELSE Yield(ItemOk(Token_new(TypeIdentifier(value.value), start)),
                             matched)

\* The match of Lexer::lex_symbol on a character that starts no comment: the
\* token type, and whether a following '=' is consumed with it.
SymbolType(character, eq) ==
  CASE character = "(" -> "OpenParanthesis"
    [] character = ")" -> "CloseParanthesis"
    [] character = "{" -> "OpenBrace"
    [] character = "}" -> "OpenBrace"
    [] character = "," -> "Comma"
    [] character = "." -> "Dot"
    [] character = ";" -> "Semicolon"
    [] character = "+" -> "Plus"
    [] character = "-" -> "Minus"
    [] character = "*" -> "Multiply"
    [] character = "/" -> "Divide"
    [] character = "!" -> IF eq THEN "NotEquals" ELSE "Not"
    [] character = ">" -> IF eq THEN "GreaterThanOrEquals" ELSE "GreaterThan"
    [] character = "<" -> IF eq THEN "LessThanOrEquals" ELSE "LessThan"
    [] character = "=" -> IF eq THEN "Equals" ELSE "Assign"
    [] OTHER -> "InvalidCharacter"

\* lex_symbol_match with the bug of the unguarded arms coming first: a
\* following '=' is never consumed and the one-character token is made.
lex_symbol_match_unguarded(position, character, s) ==
  LET type == SymbolType(character, FALSE)
  IN IF type = "InvalidCharacter"
     THEN Yield(ItemErr(position, "InvalidCharacter"), s)
     ELSE Yield(ItemOk(Token_new(Plain(type), position)), s)

\* The token or error lex_symbol makes of a character read at position.
lex_symbol_match(position, character, s) ==
  LET eq == IF character \in {"!", ">", "<", "="}
            THEN consume_if_character(s, "=")
            ELSE [ok |-> FALSE, src |-> s]
      type == SymbolType(character, eq.ok)
  IN IF type = "InvalidCharacter"
     THEN Yield(ItemErr(position, "InvalidCharacter"), eq.src)
     ELSE Yield(ItemOk(Token_new(Plain(type), position)), eq.src)

RECURSIVE lex_symbol_from(_, _, _)
\* Lexer::lex_symbol from its comment loop on: (position, character) is the
\* character read last.
lex_symbol_from(position, character, s) ==
  LET slash == consume_if_character(s, "/")
  IN IF character = "/" /\ slash.ok
     THEN LET after == Source_next(consume_comment(slash.src))
          IN IF ~after.some THEN Yield(None, after.src)
             ELSE lex_symbol_from(after.position, after.character, after.src)
     ELSE lex_symbol_match(position, character, s)

\* Lexer::lex_symbol
lex_symbol(s) ==
  LET first == Source_next(s)
  IN IF ~first.some THEN Yield(None, first.src)
     ELSE lex_symbol_from(first.position, first.character, first.src)

\* Which lex_* routine Iterator::next dispatches to on the peeked character.
Dispatch(character) ==
  IF character = QUOTE THEN "lex_string"
  ELSE IF character \in Numeric THEN "lex_number"
  ELSE IF character \in Alphabetic THEN "lex_keyword_or_identifier"
  ELSE "lex_symbol"

\* Iterator for Lexer: next
Lexer_next(s) ==
  LET skipped == consume_whitespaces(s)
      character == Source_peek(skipped)
  IN IF ~character.some THEN Yield(None, skipped)
     ELSE CASE Dispatch(character.character) = "lex_string" -> lex_string(skipped)
            [] Dispatch(character.character) = "lex_number" -> lex_number(skipped)
            [] Dispatch(character.character) = "lex_keyword_or_identifier" ->
                 lex_keyword_or_identifier(skipped)
            [] OTHER -> lex_symbol(skipped)

\* Lexer::new
Lexer_new(text) == Source_new(text)

\* The routine the next pull of the iterator runs: "end" when only
\* whitespace is left, else the lex_* routine of the first other character.
Route(s) ==
  LET character == Source_peek(consume_whitespaces(s))
  IN IF ~character.some THEN "end" ELSE Dispatch(character.character)

\* lex_return with the bug of reporting the first error only.
lex_return_first_error(toks, errs) ==
  IF errs # <<>> THEN [kind |-> "Err", errors |-> <<Head(errs)>>]
  ELSE [kind |-> "Ok", tokens |-> toks]

\* Lexer::lex, its last lines: Err with the errors when there are any, else
\* Ok with the tokens.
lex_return(toks, errs) ==
  IF errs # <<>> THEN [kind |-> "Err", errors |-> errs]
  ELSE [kind |-> "Ok", tokens |-> toks]

Running == [kind |-> "Running"]
Panicked == [kind |-> "Panicked"]

\* partition_result inside Lexer::lex takes the item r of one pull of the
\* iterator: an Ok item goes to the tokens, an Err item to the errors; on
\* None the partition is over and lex returns; a panic unwinds out of lex.
Partition(r) ==
  /\ lexer' = r.src
  /\ UNCHANGED source_call
  /\ items' = IF r.item.kind \in {"Ok", "Err"}
              THEN Append(items, r.item) ELSE items
  /\ tokens' = IF r.item.kind = "Ok"
               THEN Append(tokens, r.item.token) ELSE tokens
  /\ errors' = IF r.item.kind = "Err"
               THEN Append(errors, r.item.error) ELSE errors
  /\ lex_result' = CASE r.item.kind = "None" -> lex_return(tokens, errors)
                     [] r.item.kind = "Panic" -> Panicked
                     [] OTHER -> Running

\* A pull that runs lex_string.
PullString ==
  /\ lex_result = Running
  /\ Route(lexer) = "lex_string"
  /\ \E r \in {Lexer_next(lexer)} : Partition(r)
  /\ UNCHANGED parser_vars

\* A pull that runs lex_number.
PullNumber ==
  /\ lex_result = Running
  /\ Route(lexer) = "lex_number"
  /\ \E r \in {Lexer_next(lexer)} : Partition(r)
  /\ UNCHANGED parser_vars

\* A pull that runs lex_keyword_or_identifier.
PullKeywordOrIdentifier ==
  /\ lex_result = Running
  /\ Route(lexer) = "lex_keyword_or_identifier"
  /\ \E r \in {Lexer_next(lexer)} : Partition(r)
  /\ UNCHANGED parser_vars

\* A pull that runs lex_symbol.
PullSymbol ==
  /\ lex_result = Running
  /\ Route(lexer) = "lex_symbol"
  /\ \E r \in {Lexer_next(lexer)} : Partition(r)
  /\ UNCHANGED parser_vars

\* A pull that finds nothing but whitespace left: the iterator is exhausted.
PullEnd ==
  /\ lex_result = Running
  /\ Route(lexer) = "end"
  /\ \E r \in {Lexer_next(lexer)} : Partition(r)
  /\ UNCHANGED parser_vars

\* ------------------------------------------------------------------------
\* ast/mod.rs: Expression
\* ------------------------------------------------------------------------

Literal(token) == [node |-> "Literal", token |-> token]

UnaryExpression(op, operand) ==
  [node |-> "UnaryExpression", operator |-> op, operand |-> operand]

BinaryExpression(left_operand, op, right_operand) ==
  [node |-> "BinaryExpression", left_operand |-> left_operand,
   operator |-> op, right_operand |-> right_operand]

\* ------------------------------------------------------------------------
\* ast/parser/mod.rs: the token predicates
\* ------------------------------------------------------------------------

is_equality_operator(token) == token.type.tag \in {"Equals", "NotEquals"}

is_comparison_operator(token) ==
  token.type.tag \in {"GreaterThan", "GreaterThanOrEquals", "LessThan",
                      "LessThanOrEquals"}

is_additive_operator(token) == token.type.tag \in {"Plus", "Minus"}

\* is_multiplicative_operator with the bug of leaving Multiply out.
is_multiplicative_operator_without_multiply(token) ==
  token.type.tag \in {"Divide"}

is_multiplicative_operator(token) == token.type.tag \in {"Multiply", "Divide"}

\* is_unary_operator with the bug of leaving Minus out.
is_unary_operator_without_minus(token) == token.type.tag \in {"Not"}

is_unary_operator(token) == token.type.tag \in {"Minus", "Not"}

\* Token::is_literal as ast/parser/mod.rs defines it.
Parser_is_literal(token) ==
  \/ token.type.tag \in {"String", "Number"}
  \/ token.type.tag = "Keyword" /\ token.type.keyword \in {"True", "False", "Nil"}

\* Token::is_literal as lexer/token.rs defines it.
Token_is_literal(token) == token.type.tag \in {"Number", "String", "Identifier"}

\* Token::is_literal as parse_literal calls it.  The source defines the
\* method twice on Token; impl names the definition the build resolves to.
is_literal(impl, token) ==
  IF impl = "parser" THEN Parser_is_literal(token) ELSE Token_is_literal(token)

\* ------------------------------------------------------------------------
\* ast/parser/mod.rs: Parser.  A parser p is [rest, position]: the tokens its
\* Peekable iterator has not yielded yet and its position field.  A parse_*
\* operator returns the Result and the parser as the call leaves it.
\* ------------------------------------------------------------------------

\* Parser::new
Parser_new(slice) ==
  IF slice = <<>> THEN [kind |-> "None"]
  ELSE [kind |-> "Some", rest |-> slice, position |-> slice[1].position]

ParseOk(expr, p) == [ok |-> TRUE, expr |-> expr, parser |-> p]

ParseErr(position, type, p) ==
  [ok |-> FALSE, error |-> [position |-> position, type |-> type], parser |-> p]

\* self.tokens.next(): the parser with its first remaining token consumed.
Advance(p) == [p EXCEPT !.rest = Tail(@)]

\* Parser::parse_literal
parse_literal(impl, p) ==
  IF p.rest # <<>> /\ is_literal(impl, Head(p.rest))
  THEN ParseOk(Literal(Head(p.rest)), Advance(p))
  ELSE ParseErr(p.position, "ExpectedLiteral", p)

RECURSIVE parse_equality(_, _)
RECURSIVE parse_unary_expression(_, _)

\* Parser::parse_expression
parse_expression(impl, p) == parse_equality(impl, p)

\* The rest of parse_paranthesized once the inner expression is parsed:
\* `?` returns its error, else the closing parenthesis is consumed or found
\* missing.
close_paranthesis(open_paranthesis, inner) ==
  IF ~inner.ok THEN inner
  ELSE IF inner.parser.rest # <<>>
          /\ Head(inner.parser.rest).type.tag = "CloseParanthesis"
       THEN ParseOk(inner.expr, Advance(inner.parser))
       ELSE ParseErr(open_paranthesis.position, "ExpectedCloseParanthesis",
                     inner.parser)

\* parse_paranthesized with the bug of reporting the missing parenthesis at
\* the parser's position field, as parse_literal does.
parse_paranthesized_at_parser_position(impl, p) ==
  IF p.rest # <<>> /\ Head(p.rest).type.tag = "OpenParanthesis"
  THEN close_paranthesis([position |-> p.position],
                         parse_expression(impl, Advance(p)))
  ELSE parse_literal(impl, p)

\* Parser::parse_paranthesized
parse_paranthesized(impl, p) ==
  IF p.rest # <<>> /\ Head(p.rest).type.tag = "OpenParanthesis"
  THEN close_paranthesis(Head(p.rest), parse_expression(impl, Advance(p)))
  ELSE parse_literal(impl, p)

\* The rest of parse_unary_expression once the operand is parsed.
wrap_operand(op, operand) ==
  IF ~operand.ok THEN operand
  ELSE ParseOk(UnaryExpression(op, operand.expr), operand.parser)

\* Parser::parse_unary_expression
parse_unary_expression(impl, p) ==
  IF p.rest # <<>> /\ is_unary_operator(Head(p.rest))
  THEN wrap_operand(Head(p.rest), parse_unary_expression(impl, Advance(p)))
  ELSE parse_paranthesized(impl, p)

RECURSIVE multiplicative_loop(_, _, _)

\* One turn of the loop once its right operand is parsed: `?` returns its
\* error, else the operands are folded and the loop goes on.
multiplicative_fold(impl, left_operand, op, right_operand) ==
  IF ~right_operand.ok THEN right_operand
  ELSE multiplicative_loop(
         impl, BinaryExpression(left_operand, op, right_operand.expr),
         right_operand.parser)

\* The while loop of parse_multiplicative_expression.
multiplicative_loop(impl, left_operand, p) ==
  IF p.rest # <<>> /\ is_multiplicative_operator(Head(p.rest))
  THEN multiplicative_fold(impl, left_operand, Head(p.rest),
                           parse_unary_expression(impl, Advance(p)))
  ELSE ParseOk(left_operand, p)

\* The rest of parse_multiplicative_expression once the first operand is
\* parsed.
multiplicative_rest(impl, left_operand) ==
  IF ~left_operand.ok THEN left_operand
  ELSE multiplicative_loop(impl, left_operand.expr, left_operand.parser)

\* Parser::parse_multiplicative_expression
parse_multiplicative_expression(impl, p) ==
  multiplicative_rest(impl, parse_unary_expression(impl, p))

\* The one turn of additive_once once its right operand is parsed.
additive_fold_once(left_operand, op, right_operand) ==
  IF ~right_operand.ok THEN right_operand
  ELSE ParseOk(BinaryExpression(left_operand, op, right_operand.expr),
               right_operand.parser)

\* additive_loop with the bug of an if in place of the while: one operator
\* at most is folded.
additive_once(impl, left_operand, p) ==
  IF p.rest # <<>> /\ is_additive_operator(Head(p.rest))
  THEN additive_fold_once(left_operand, Head(p.rest),
                          parse_multiplicative_expression(impl, Advance(p)))
  ELSE ParseOk(left_operand, p)

RECURSIVE additive_loop(_, _, _)

\* One turn of the loop once its right operand is parsed.
additive_fold(impl, left_operand, op, right_operand) ==
  IF ~right_operand.ok THEN right_operand
  ELSE additive_loop(
         impl, BinaryExpression(left_operand, op, right_operand.expr),
         right_operand.parser)

\* The while loop of parse_additive_expression.
additive_loop(impl, left_operand, p) ==
  IF p.rest # <<>> /\ is_additive_operator(Head(p.rest))
  THEN additive_fold(impl, left_operand, Head(p.rest),
                     parse_multiplicative_expression(impl, Advance(p)))
  ELSE ParseOk(left_operand, p)

\* The rest of parse_additive_expression once the first operand is parsed.
additive_rest(impl, left_operand) ==
  IF ~left_operand.ok THEN left_operand
  ELSE additive_loop(impl, left_operand.expr, left_operand.parser)

\* Parser::parse_additive_expression
parse_additive_expression(impl, p) ==
  additive_rest(impl, parse_multiplicative_expression(impl, p))

RECURSIVE comparison_loop(_, _, _)

\* One turn of the loop once its right operand is parsed.
comparison_fold(impl, left_operand, op, right_operand) ==
  IF ~right_operand.ok THEN right_operand
  ELSE comparison_loop(
         impl, BinaryExpression(left_operand, op, right_operand.expr),
         right_operand.parser)

\* The while loop of parse_comparison.
comparison_loop(impl, left_operand, p) ==
  IF p.rest # <<>> /\ is_comparison_operator(Head(p.rest))
  THEN comparison_fold(impl, left_operand, Head(p.rest),
                       parse_additive_expression(impl, Advance(p)))
  ELSE ParseOk(left_operand, p)

\* The rest of parse_comparison once the first operand is parsed.
comparison_rest(impl, left_operand) ==
  IF ~left_operand.ok THEN left_operand
  ELSE comparison_loop(impl, left_operand.expr, left_operand.parser)

\* Parser::parse_comparison
parse_comparison(impl, p) ==
  comparison_rest(impl, parse_additive_expression(impl, p))

RECURSIVE equality_loop(_, _, _)

\* One turn of the loop once its right operand is parsed.
equality_fold(impl, left_operand, op, right_operand) ==
  IF ~right_operand.ok THEN right_operand
  ELSE equality_loop(
         impl, BinaryExpression(left_operand, op, right_operand.expr),
         right_operand.parser)

\* The while loop of parse_equality.
equality_loop(impl, left_operand, p) ==
  IF p.rest # <<>> /\ is_equality_operator(Head(p.rest))
  THEN equality_fold(impl, left_operand, Head(p.rest),
                     parse_comparison(impl, Advance(p)))
  ELSE ParseOk(left_operand, p)

\* The rest of parse_equality once the first operand is parsed.
equality_rest(impl, left_operand) ==
  IF ~left_operand.ok THEN left_operand
  ELSE equality_loop(impl, left_operand.expr, left_operand.parser)

\* Parser::parse_equality
parse_equality(impl, p) ==
  equality_rest(impl, parse_comparison(impl, p))

\* Parser::parse
parse(impl, p) == parse_expression(impl, p)

\* ------------------------------------------------------------------------
\* ast/operator.rs: the precedence tiers made by create_precedance!
\* ------------------------------------------------------------------------

Unary == {"Minus", "Not"}
\* The Multiplicative tier with the bug of listing Plus in it too.
Multiplicative_with_plus == {"Multiply", "Divide", "Plus"}
Multiplicative == {"Multiply", "Divide"}
Additive == {"Plus", "Minus"}
Comparison == {"GreaterThan", "GreaterThanOrEquals", "LessThan",
               "LessThanOrEquals"}
Equality == {"Equals", "NotEquals"}

\* $name::try_from of a tier with the given variants: the variant named as
\* the token type, when the tier has one.
try_from(variants, token_type) ==
  IF token_type.tag \in variants
  THEN [some |-> TRUE, variant |-> token_type.tag]
  ELSE [some |-> FALSE]

Unary_try_from(token_type) == try_from(Unary, token_type)
Multiplicative_try_from(token_type) == try_from(Multiplicative, token_type)
Additive_try_from(token_type) == try_from(Additive, token_type)
Comparison_try_from(token_type) == try_from(Comparison, token_type)
Equality_try_from(token_type) == try_from(Equality, token_type)

\* Parser::next_if_<tier>_operator, given the tier's name and what its
\* try_from returns on the peeked token: the Operator returned and the
\* parser as the call leaves it.
next_if_operator(tier, variant, p) ==
  IF p.rest = <<>> \/ ~variant.some
  THEN [operator |-> [some |-> FALSE], parser |-> p]
  ELSE [operator |-> [some |-> TRUE,
                      precedance |-> [tier |-> tier, variant |-> variant.variant],
                      token |-> Head(p.rest)],
        parser |-> Advance(p)]

\* ------------------------------------------------------------------------
\* The token slices the parser is run on
\* ------------------------------------------------------------------------

One == [mantissa |-> 1, scale |-> 0]

AllTypes ==
  {Plain(t) : t \in PlainTypes}
    \cup {TypeString(<<"a">>), TypeNumber(One), TypeIdentifier(<<"a">>)}
    \cup {TypeKeyword(k) : k \in Keywords}

CoreTypes ==
  {TypeNumber(One)}
    \cup {Plain(t) : t \in {"OpenParanthesis", "CloseParanthesis", "Minus",
                            "Multiply", "Equals", "LessThan"}}

\* One operator of each binary tier.
TierOperators == {Plain(t) : t \in {"Minus", "Multiply", "Equals", "LessThan"}}

\* The slices of numbers joined by the given operators: 1 op 1 op ... 1.
Joined(ops) ==
  [i \in 1..(2 * Len(ops) + 1) |->
     IF i % 2 = 1 THEN TypeNumber(One) ELSE ops[i \div 2]]

JoinedSeqs == {Joined(ops) : ops \in SeqsUpTo(TierOperators, JoinedOperators)}

ChainTypes == {TypeNumber(One), Plain("Minus"), Plain("Not")}

\* The tokens of the given types, one after the other on one line.
Slice(types) ==
  [i \in 1..Len(types) |->
     Token_new(types[i], [line |-> 0, column |-> i - 1, index |-> i - 1])]

ShortTypeSeqs == SeqsUpTo(AllTypes, ShortTokens)

TypeSeqs ==
  SeqsUpTo(AllTypes, SingleTokens) \cup SeqsUpTo(CoreTypes, MaxTokens)
    \cup SeqsUpTo(ChainTypes, ChainTokens) \cup JoinedSeqs

\* ------------------------------------------------------------------------
\* The parser's steps
\* ------------------------------------------------------------------------

Unbuilt == [kind |-> "Unbuilt"]

\* No routine of the Parser has been called.
NoParseCall == [routine |-> "none"]

\* Parser::new(&token_slice)
ParserNew ==
  /\ parser = Unbuilt
  /\ parser' = Parser_new(token_slice)
  /\ UNCHANGED <<token_slice, literal_impl, parse_call, parse_result, operator>>
  /\ UNCHANGED lexer_vars

\* The number of tokens the parser has consumed.
Consumed == Len(token_slice) - Len(parser.rest)

\* A routine of the Parser returns r: the parser is left as the call leaves
\* it, and the caller holds the Result.
Returns(routine, r) ==
  /\ parser' = r.parser
  /\ parse_call' = [routine |-> routine, consumed |-> Consumed]
  /\ parse_result' = IF r.ok THEN [kind |-> "Ok", expr |-> r.expr]
                     ELSE [kind |-> "Err", error |-> r.error]

\* parser.parse()
Parse ==
  /\ parser.kind = "Some"
  /\ \E r \in {parse(literal_impl, parser)} : Returns("parse", r)
  /\ UNCHANGED <<token_slice, literal_impl, operator>>
  /\ UNCHANGED lexer_vars

\* parser.parse_equality()
ParseEquality ==
  /\ parser.kind = "Some"
  /\ \E r \in {parse_equality(literal_impl, parser)} :
        Returns("parse_equality", r)
  /\ UNCHANGED <<token_slice, literal_impl, operator>>
  /\ UNCHANGED lexer_vars

\* parser.parse_comparison()
ParseComparison ==
  /\ parser.kind = "Some"
  /\ \E r \in {parse_comparison(literal_impl, parser)} :
        Returns("parse_comparison", r)
  /\ UNCHANGED <<token_slice, literal_impl, operator>>
  /\ UNCHANGED lexer_vars

\* parser.parse_additive_expression()
ParseAdditiveExpression ==
  /\ parser.kind = "Some"
  /\ \E r \in {parse_additive_expression(literal_impl, parser)} :
        Returns("parse_additive_expression", r)
  /\ UNCHANGED <<token_slice, literal_impl, operator>>
  /\ UNCHANGED lexer_vars

\* parser.parse_multiplicative_expression()
ParseMultiplicativeExpression ==
  /\ parser.kind = "Some"
  /\ \E r \in {parse_multiplicative_expression(literal_impl, parser)} :
        Returns("parse_multiplicative_expression", r)
  /\ UNCHANGED <<token_slice, literal_impl, operator>>
  /\ UNCHANGED lexer_vars

\* parser.parse_unary_expression()
ParseUnaryExpression ==
  /\ parser.kind = "Some"
  /\ \E r \in {parse_unary_expression(literal_impl, parser)} :
        Returns("parse_unary_expression", r)
  /\ UNCHANGED <<token_slice, literal_impl, operator>>
  /\ UNCHANGED lexer_vars

\* parser.parse_paranthesized()
ParseParanthesized ==
  /\ parser.kind = "Some"
  /\ \E r \in {parse_paranthesized(literal_impl, parser)} :
        Returns("parse_paranthesized", r)
  /\ UNCHANGED <<token_slice, literal_impl, operator>>
  /\ UNCHANGED lexer_vars

\* parser.parse_literal()
ParseLiteral ==
  /\ parser.kind = "Some"
  /\ \E r \in {parse_literal(literal_impl, parser)} :
        Returns("parse_literal", r)
  /\ UNCHANGED <<token_slice, literal_impl, operator>>
  /\ UNCHANGED lexer_vars

\* A call of Parser::next_if_<tier>_operator with the given try_from result.
NextIfOperator(tier, variant) ==
  /\ \E r \in {next_if_operator(tier, variant, parser)} :
        /\ parser' = r.parser
        /\ operator' = r.operator
  /\ UNCHANGED <<token_slice, literal_impl, parse_call, parse_result>>
  /\ UNCHANGED lexer_vars

\* self.tokens.peek()?.r#type(): the type of the token the parser stands
\* at; with no token left the routine returns None before any try_from.
Peeked == Head(parser.rest).type

NoVariant == [some |-> FALSE]

NextIfUnaryOperator ==
  /\ parser.kind = "Some"
  /\ NextIfOperator("Unary",
                    IF parser.rest = <<>> THEN NoVariant
                    ELSE Unary_try_from(Peeked))

NextIfMultiplicativeOperator ==
  /\ parser.kind = "Some"
  /\ NextIfOperator("Multiplicative",
                    IF parser.rest = <<>> THEN NoVariant
                    ELSE Multiplicative_try_from(Peeked))

NextIfAdditiveOperator ==
  /\ parser.kind = "Some"
  /\ NextIfOperator("Additive",
                    IF parser.rest = <<>> THEN NoVariant
                    ELSE Additive_try_from(Peeked))

NextIfComparisonOperator ==
  /\ parser.kind = "Some"
  /\ NextIfOperator("Comparison",
                    IF parser.rest = <<>> THEN NoVariant
                    ELSE Comparison_try_from(Peeked))

NextIfEqualityOperator ==
  /\ parser.kind = "Some"
  /\ NextIfOperator("Equality",
                    IF parser.rest = <<>> THEN NoVariant
                    ELSE Equality_try_from(Peeked))

\* ------------------------------------------------------------------------
\* Specifications
\* ------------------------------------------------------------------------

\* No method of the Source has been called from outside the Lexer.
NoCall == [op |-> "none"]

LexerIdle ==
  /\ lexer = Lexer_new(<<>>)
  /\ source_call = NoCall
  /\ items = <<>>
  /\ tokens = <<>>
  /\ errors = <<>>
  /\ lex_result = Running

ParserIdle ==
  /\ token_slice = <<>>
  /\ literal_impl = "parser"
  /\ parser = Unbuilt
  /\ parse_call = NoParseCall
  /\ parse_result = Running
  /\ operator = [some |-> FALSE]

\* Lexer::new(text).lex() on every source text of the bounded set.
LexerInit ==
  /\ \E text \in Sources : lexer = Lexer_new(text)
  /\ source_call = NoCall
  /\ items = <<>>
  /\ tokens = <<>>
  /\ errors = <<>>
  /\ lex_result = Running
  /\ ParserIdle

LexerNext ==
  \/ PullString
  \/ PullNumber
  \/ PullKeywordOrIdentifier
  \/ PullSymbol
  \/ PullEnd

LexerSpec == LexerInit /\ [][LexerNext]_vars

\* Parser::new(&slice) and any calls of parse() and of the public parse_*
\* routines on every token slice of the bounded set, under either definition
\* of Token::is_literal.
ParserInit ==
  /\ \E types \in TypeSeqs : token_slice = Slice(types)
  /\ literal_impl \in {"parser", "token"}
  /\ parser = Unbuilt
  /\ parse_call = NoParseCall
  /\ parse_result = Running
  /\ operator = [some |-> FALSE]
  /\ LexerIdle

ParserNext ==
  \/ ParserNew
  \/ Parse
  \/ ParseEquality
  \/ ParseComparison
  \/ ParseAdditiveExpression
  \/ ParseMultiplicativeExpression
  \/ ParseUnaryExpression
  \/ ParseParanthesized
  \/ ParseLiteral

ParserSpec == ParserInit /\ [][ParserNext]_vars

\* Parser::new(&slice) and any calls of the next_if_<tier>_operator methods.
OperatorInit ==
  /\ \E types \in ShortTypeSeqs : token_slice = Slice(types)
  /\ literal_impl = "parser"
  /\ parser = Unbuilt
  /\ parse_call = NoParseCall
  /\ parse_result = Running
  /\ operator = [some |-> FALSE]
  /\ LexerIdle

OperatorNext ==
  \/ ParserNew
  \/ NextIfUnaryOperator
  \/ NextIfMultiplicativeOperator
  \/ NextIfAdditiveOperator
  \/ NextIfComparisonOperator
  \/ NextIfEqualityOperator

OperatorSpec == OperatorInit /\ [][OperatorNext]_vars

\* ------------------------------------------------------------------------
\* The Source's methods called one by one, in any order
\* ------------------------------------------------------------------------

\* The characters of the texts the methods are called on.
SourceAlphabet == {"a", "1", LF, QUOTE, ".", "/", "="}

SourceTexts == SeqsUpTo(SourceAlphabet, SourceLen)

\* The predicates the Lexer passes to next_if and consume_if.
Predicates == {Whitespace, Numeric, Alphabetic, Alphanumeric \cup {"_"}}

\* The characters the Lexer passes to next_if_character and
\* consume_if_character, and to the _not_ variants.
ExpectedCharacters == {QUOTE, ".", "/", "="}
UnexpectedCharacters == {QUOTE, LF}

\* What a call returning Option<(Position, char)> returned.
OptionCall(op, r) ==
  IF r.some
  THEN [op |-> op, some |-> TRUE, position |-> r.position,
        character |-> r.character]
  ELSE [op |-> op, some |-> FALSE]

\* What a call returning bool returned.
BoolCall(op, r) == [op |-> op, some |-> r.ok]

\* source.peek()
SourcePeek ==
  /\ source_call' = [op |-> "peek", peeked |-> Source_peek(lexer)]
  /\ UNCHANGED <<lexer, items, tokens, errors, lex_result>>
  /\ UNCHANGED parser_vars

\* source.next()
SourceNext ==
  /\ \E r \in {Source_next(lexer)} :
        /\ lexer' = r.src
        /\ source_call' = OptionCall("next", r)
  /\ UNCHANGED <<items, tokens, errors, lex_result>>
  /\ UNCHANGED parser_vars

\* source.next_if(predicate)
SourceNextIf ==
  /\ \E accepted \in Predicates :
        \E r \in {Source_next_if(lexer, accepted)} :
          /\ lexer' = r.src
          /\ source_call' = OptionCall("next_if", r)
  /\ UNCHANGED <<items, tokens, errors, lex_result>>
  /\ UNCHANGED parser_vars

\* source.consume_if(predicate)
SourceConsumeIf ==
  /\ \E accepted \in Predicates :
        \E r \in {consume_if(lexer, accepted)} :
          /\ lexer' = r.src
          /\ source_call' = BoolCall("consume_if", r)
  /\ UNCHANGED <<items, tokens, errors, lex_result>>
  /\ UNCHANGED parser_vars

\* source.next_if_character(expected)
SourceNextIfCharacter ==
  /\ \E expected \in ExpectedCharacters :
        \E r \in {next_if_character(lexer, expected)} :
          /\ lexer' = r.src
          /\ source_call' = OptionCall("next_if_character", r)
  /\ UNCHANGED <<items, tokens, errors, lex_result>>
  /\ UNCHANGED parser_vars

\* source.consume_if_character(expected)
SourceConsumeIfCharacter ==
  /\ \E expected \in ExpectedCharacters :
        \E r \in {consume_if_character(lexer, expected)} :
          /\ lexer' = r.src
          /\ source_call' = BoolCall("consume_if_character", r)
  /\ UNCHANGED <<items, tokens, errors, lex_result>>
  /\ UNCHANGED parser_vars

\* source.next_if_not_character(expected)
SourceNextIfNotCharacter ==
  /\ \E expected \in UnexpectedCharacters :
        \E r \in {next_if_not_character(lexer, expected)} :
          /\ lexer' = r.src
          /\ source_call' = OptionCall("next_if_not_character", r)
  /\ UNCHANGED <<items, tokens, errors, lex_result>>
  /\ UNCHANGED parser_vars

\* source.consume_if_not_character(expected)
SourceConsumeIfNotCharacter ==
  /\ \E expected \in UnexpectedCharacters :
        \E r \in {consume_if_not_character(lexer, expected)} :
          /\ lexer' = r.src
          /\ source_call' = BoolCall("consume_if_not_character", r)
  /\ UNCHANGED <<items, tokens, errors, lex_result>>
  /\ UNCHANGED parser_vars

\* Source::new(text) on every text of the bounded set.
SourceInit ==
  /\ \E text \in SourceTexts : lexer = Source_new(text)
  /\ source_call = NoCall
  /\ items = <<>>
  /\ tokens = <<>>
  /\ errors = <<>>
  /\ lex_result = Running
  /\ ParserIdle

SourceCalls ==
  \/ SourcePeek
  \/ SourceNext
  \/ SourceNextIf
  \/ SourceConsumeIf
  \/ SourceNextIfCharacter
  \/ SourceConsumeIfCharacter
  \/ SourceNextIfNotCharacter
  \/ SourceConsumeIfNotCharacter

SourceSpec == SourceInit /\ [][SourceCalls]_vars

\* ------------------------------------------------------------------------
\* Claims about the lexer (LexerSpec)
\* ------------------------------------------------------------------------

Returned == lex_result.kind \in {"Ok", "Err"}

RECURSIVE FromLineEnd(_)
\* The text from its first newline on (empty when it has none).
FromLineEnd(text) ==
  IF text = <<>> \/ Head(text) = LF THEN text ELSE FromLineEnd(Tail(text))

RECURSIVE OnlyWhitespaceAndComments(_)
\* The text is made only of whitespace characters and of line comments,
\* each from "//" up to the end of its line.
OnlyWhitespaceAndComments(text) ==
  IF text = <<>> THEN TRUE
  ELSE IF Head(text) \in Whitespace
       THEN OnlyWhitespaceAndComments(Tail(text))
       ELSE IF Len(text) >= 2 /\ text[1] = "/" /\ text[2] = "/"
            THEN OnlyWhitespaceAndComments(FromLineEnd(text))
            ELSE FALSE

\* C1: a source text made only of whitespace and line comments lexes to Ok
\* with no token.
C1_BlankSourceLexesToNothing ==
  (lex_result # Running /\ OnlyWhitespaceAndComments(lexer.source))
    => lex_result = [kind |-> "Ok", tokens |-> <<>>]

ErrorsOf(its) ==
  LET errs == SelectSeq(its, LAMBDA it : it.kind = "Err")
  IN [i \in 1..Len(errs) |-> errs[i].error]

TokensOf(its) ==
  LET oks == SelectSeq(its, LAMBDA it : it.kind = "Ok")
  IN [i \in 1..Len(oks) |-> oks[i].token]

InSourceOrder(seq) ==
  \A i, j \in 1..Len(seq) :
    i < j => seq[i].position.index < seq[j].position.index

\* C2: when lex returns, the iterator has been drained to the end of the
\* source; lex returns Err exactly when some item failed, and then with
\* every error in source order; otherwise Ok with every token in source
\* order.
C2_LexReturnsAllErrorsOrAllTokens ==
  Returned =>
    /\ lexer.characters = <<>>
    /\ lex_result.kind = "Err" <=> (\E i \in 1..Len(items) : items[i].kind = "Err")
    /\ lex_result.kind = "Err" =>
         /\ lex_result.errors = ErrorsOf(items)
         /\ InSourceOrder(lex_result.errors)
    /\ lex_result.kind = "Ok" =>
         /\ lex_result.tokens = TokensOf(items)
         /\ InSourceOrder(lex_result.tokens)

\* lex has returned Err with more than one error, having lexed tokens too.
C2_Witness ==
  /\ lex_result.kind = "Err"
  /\ Len(lex_result.errors) >= 2
  /\ tokens # <<>>

\* The token type C9 gives each single-character symbol.
C9_TypeOf(character) ==
  CASE character = "(" -> "OpenParanthesis"
    [] character = ")" -> "CloseParanthesis"
    [] character = "{" -> "OpenBrace"
    [] character = "}" -> "CloseBrace"
    [] character = "," -> "Comma"
    [] character = "." -> "Dot"
    [] character = ";" -> "Semicolon"
    [] character = "+" -> "Plus"
    [] character = "-" -> "Minus"
    [] character = "*" -> "Multiply"
    [] character = "/" -> "Divide"

C9_Characters == {"(", ")", "{", "}", ",", ".", ";", "+", "-", "*", "/"}

\* C9: a source that is one single-character symbol lexes to one token of
\* the symbol's own type.
C9_SingleCharacterSymbols ==
  (lex_result # Running /\ Len(lexer.source) = 1
     /\ lexer.source[1] \in C9_Characters)
    => /\ lex_result.kind = "Ok"
       /\ Len(lex_result.tokens) = 1
       /\ lex_result.tokens[1].type = Plain(C9_TypeOf(lexer.source[1]))

\* ------------------------------------------------------------------------
\* Claims about the parser (ParserSpec)
\* ------------------------------------------------------------------------

Tag(i) == token_slice[i].type.tag

\* The result held is that of a call of Parser::parse.
ParseReturned == parse_call.routine = "parse"

\* The result held is that of Parser::parse called on the parser as
\* Parser::new built it over the slice.
ParsedSlice == parse_call = [routine |-> "parse", consumed |-> 0]

\* A token every definition of the grammar's literal takes as an operand.
IsOperand(i) == Tag(i) \in {"Number", "String"}

\* The binary tiers, from loosest (1) to tightest (4); 0 for any other token.
BinaryTier(tag) ==
  CASE tag \in {"Equals", "NotEquals"} -> 1
    [] tag \in {"GreaterThan", "GreaterThanOrEquals", "LessThan",
                "LessThanOrEquals"} -> 2
    [] tag \in {"Plus", "Minus"} -> 3
    [] tag \in {"Multiply", "Divide"} -> 4
    [] OTHER -> 0

Parsed(expr) == [kind |-> "Ok", expr |-> expr]

\* C3: of two binary operators of different tiers in a op1 b op2 c, the
\* one of the tighter tier takes b: a op1 (b op2 c) when op2 is tighter,
\* (a op1 b) op2 c when op1 is.
C3_TighterTierNestsDeeper ==
  (/\ ParsedSlice
   /\ Len(token_slice) = 5
   /\ IsOperand(1) /\ IsOperand(3) /\ IsOperand(5)
   /\ BinaryTier(Tag(2)) > 0 /\ BinaryTier(Tag(4)) > 0
   /\ BinaryTier(Tag(2)) # BinaryTier(Tag(4)))
    => parse_result =
         Parsed(IF BinaryTier(Tag(4)) > BinaryTier(Tag(2))
                THEN BinaryExpression(
                       Literal(token_slice[1]), token_slice[2],
                       BinaryExpression(Literal(token_slice[3]), token_slice[4],
                                        Literal(token_slice[5])))
                ELSE BinaryExpression(
                       BinaryExpression(Literal(token_slice[1]), token_slice[2],
                                        Literal(token_slice[3])),
                       token_slice[4], Literal(token_slice[5])))

\* 1 - 1 * 1 has been parsed, the product under the difference.
C3_Witness ==
  /\ ParsedSlice
  /\ parse_result.kind = "Ok"
  /\ Len(token_slice) = 5
  /\ Tag(2) = "Minus" /\ Tag(4) = "Multiply"
  /\ parse_result.expr.operator = token_slice[2]
  /\ parse_result.expr.right_operand.node = "BinaryExpression"

\* The slice is x1 op1 x2 ... opn xn+1, n >= 1, every op of one binary tier.
IsChain ==
  /\ Len(token_slice) >= 3
  /\ Len(token_slice) % 2 = 1
  /\ \A i \in 1..Len(token_slice) :
       IF i % 2 = 1 THEN IsOperand(i)
       ELSE BinaryTier(Tag(i)) > 0 /\ BinaryTier(Tag(i)) = BinaryTier(Tag(2))

RECURSIVE LeftFold(_)
\* The left-leaning tree of the first n tokens (n odd) of a chain.
LeftFold(n) ==
  IF n = 1 THEN Literal(token_slice[1])
  ELSE BinaryExpression(LeftFold(n - 2), token_slice[n - 1],
                        Literal(token_slice[n]))

\* C4: a chain of operators of one tier parses to the left-leaning tree.
C4_SameTierChainsLeanLeft ==
  (ParsedSlice /\ IsChain)
    => parse_result = Parsed(LeftFold(Len(token_slice)))

\* A chain of three operators has been parsed.
C4_Witness ==
  /\ ParsedSlice
  /\ parse_result.kind = "Ok"
  /\ IsChain
  /\ Len(token_slice) = 7

\* The slice is n >= 1 prefix operators and then one literal.
IsPrefixChain ==
  /\ Len(token_slice) >= 2
  /\ IsOperand(Len(token_slice))
  /\ \A i \in 1..(Len(token_slice) - 1) : Tag(i) \in {"Minus", "Not"}

RECURSIVE Nest(_)
\* The unary nest of the tokens from the i-th on of a prefix chain.
Nest(i) ==
  IF i = Len(token_slice) THEN Literal(token_slice[i])
  ELSE UnaryExpression(token_slice[i], Nest(i + 1))

RECURSIVE UnaryOperators(_)
\* The operator tokens of the unary nodes of a tree.
UnaryOperators(expr) ==
  CASE expr.node = "Literal" -> {}
    [] expr.node = "UnaryExpression" ->
         {expr.operator} \cup UnaryOperators(expr.operand)
    [] expr.node = "BinaryExpression" ->
         UnaryOperators(expr.left_operand) \cup UnaryOperators(expr.right_operand)

RECURSIVE BinaryOperators(_)
\* The operator tokens of the binary nodes of a tree.
BinaryOperators(expr) ==
  CASE expr.node = "Literal" -> {}
    [] expr.node = "UnaryExpression" -> BinaryOperators(expr.operand)
    [] expr.node = "BinaryExpression" ->
         {expr.operator} \cup BinaryOperators(expr.left_operand)
           \cup BinaryOperators(expr.right_operand)

\* Token i stands where an operand must start: first, or right after an
\* operator or an opening parenthesis.
PrefixPosition(i) ==
  \/ i = 1
  \/ BinaryTier(Tag(i - 1)) > 0
  \/ Tag(i - 1) \in {"Not", "OpenParanthesis"}

\* C5: n prefix operators and a literal parse to n nested unary nodes, the
\* first operator outermost; and in every tree a '-' in prefix position is
\* the operator of a unary node, never of a binary one.
C5_PrefixOperatorsNestInOrder ==
  /\ (ParsedSlice /\ IsPrefixChain) => parse_result = Parsed(Nest(1))
  /\ (ParsedSlice /\ parse_result.kind = "Ok") =>
       \A i \in 1..Consumed :
         (Tag(i) = "Minus" /\ PrefixPosition(i)) =>
           /\ token_slice[i] \in UnaryOperators(parse_result.expr)
           /\ token_slice[i] \notin BinaryOperators(parse_result.expr)

\* - ! - 1 has been parsed.
C5_Witness ==
  /\ ParsedSlice
  /\ parse_result.kind = "Ok"
  /\ IsPrefixChain
  /\ Len(token_slice) = 4
  /\ Tag(1) = "Minus" /\ Tag(2) = "Not" /\ Tag(3) = "Minus"

RECURSIVE OpenStack(_)
\* The opening parentheses among the first n tokens that no closing
\* parenthesis among them matches, outermost first.
OpenStack(n) ==
  IF n = 0 THEN <<>>
  ELSE LET before == OpenStack(n - 1)
       IN IF Tag(n) = "OpenParanthesis" THEN Append(before, n)
          ELSE IF Tag(n) = "CloseParanthesis" /\ before # <<>>
               THEN SubSeq(before, 1, Len(before) - 1)
               ELSE before

\* C6: ExpectedCloseParanthesis is reported at the innermost opening
\* parenthesis that the tokens consumed so far leave unmatched.
C6_CloseParanthesisErrorAtUnmatchedOpen ==
  (ParseReturned /\ parse_result.kind = "Err"
     /\ parse_result.error.type = "ExpectedCloseParanthesis")
    => LET open == OpenStack(Consumed)
       IN /\ open # <<>>
          /\ parse_result.error.position = token_slice[open[Len(open)]].position
          /\ (parser.rest = <<>>
                \/ Head(parser.rest).type.tag # "CloseParanthesis")

\* ( ( 1 ) has failed for want of the outer parenthesis's match.
C6_Witness ==
  /\ ParseReturned
  /\ parse_result.kind = "Err"
  /\ parse_result.error.type = "ExpectedCloseParanthesis"
  /\ Len(token_slice) = 4
  /\ Tag(1) = "OpenParanthesis" /\ Tag(2) = "OpenParanthesis"
  /\ Tag(4) = "CloseParanthesis"
  /\ parse_result.error.position = token_slice[1].position

\* A token of one of the literal kinds of the grammar.
IsGrammarLiteral(token) ==
  \/ token.type.tag \in {"Number", "String", "Identifier"}
  \/ token.type.tag = "Keyword" /\ token.type.keyword \in {"True", "False", "Nil"}

\* C7: a slice of one token of a literal kind of the grammar parses to the
\* Literal node of that token.
C7_EveryLiteralKindParses ==
  (ParsedSlice /\ Len(token_slice) = 1
     /\ IsGrammarLiteral(token_slice[1]))
    => parse_result = Parsed(Literal(token_slice[1]))

\* C8: ExpectedLiteral is reported at the token the parser stands at, or at
\* the last token when none is left.
C8_ExpectedLiteralAtCurrentPosition ==
  (ParseReturned /\ parse_result.kind = "Err"
     /\ parse_result.error.type = "ExpectedLiteral")
    => parse_result.error.position =
         IF parser.rest # <<>> THEN Head(parser.rest).position
         ELSE token_slice[Len(token_slice)].position

\* ------------------------------------------------------------------------
\* Claims about the precedence tiers (OperatorSpec)
\* ------------------------------------------------------------------------

\* The tiers whose try_from returns a variant for the token type.
MatchingTiers(token_type) ==
  {tier \in {"Unary", "Multiplicative", "Additive", "Comparison", "Equality"} :
     CASE tier = "Unary" -> Unary_try_from(token_type).some
       [] tier = "Multiplicative" -> Multiplicative_try_from(token_type).some
       [] tier = "Additive" -> Additive_try_from(token_type).some
       [] tier = "Comparison" -> Comparison_try_from(token_type).some
       [] tier = "Equality" -> Equality_try_from(token_type).some}

\* The tiers whose is_<tier>_operator predicate holds of the token.
PredicateTiers(token) ==
  {tier \in {"Unary", "Multiplicative", "Additive", "Comparison", "Equality"} :
     CASE tier = "Unary" -> is_unary_operator(token)
       [] tier = "Multiplicative" -> is_multiplicative_operator(token)
       [] tier = "Additive" -> is_additive_operator(token)
       [] tier = "Comparison" -> is_comparison_operator(token)
       [] tier = "Equality" -> is_equality_operator(token)}

\* C10 as stated: every token type belongs to at most one tier.
C10_AtMostOneTier ==
  parser.kind = "Some" =>
    \A i \in 1..Len(token_slice) :
      Cardinality(MatchingTiers(token_slice[i].type)) <= 1

\* C10 as amended: Minus belongs to the Unary and the Additive tier, every
\* other token type to at most one tier; the parser's predicates give the
\* same tiers as try_from; and an Operator a next_if_<tier>_operator returns
\* carries a tier of its token and the variant named as the token type.
C10_OnlyMinusInTwoTiers ==
  parser.kind = "Some" =>
    /\ \A i \in 1..Len(token_slice) :
         LET tiers == MatchingTiers(token_slice[i].type)
         IN /\ IF Tag(i) = "Minus" THEN tiers = {"Unary", "Additive"}
               ELSE Cardinality(tiers) <= 1
            /\ PredicateTiers(token_slice[i]) = tiers
    /\ operator.some =>
         /\ operator.precedance.tier \in MatchingTiers(operator.token.type)
         /\ operator.precedance.variant = operator.token.type.tag

\* next_if_additive_operator has returned a Minus token.
C10_Witness ==
  /\ operator.some
  /\ operator.token.type.tag = "Minus"
  /\ operator.precedance.tier = "Additive"

\* ------------------------------------------------------------------------
\* Further claims about the lexer (LexerSpec)
\* ------------------------------------------------------------------------

\* The item the last pull of the iterator yielded.
LastItem == items[Len(items)]

\* The characters the last pull consumed from the start of its item on: the
\* lexeme of that item.
LastLexeme ==
  SubSeq(lexer.source, LastItem.token.position.index + 1, lexer.position.index)

\* C11: lex never aborts, and the value of every String, Number, Keyword
\* and Identifier token is taken from exactly the characters consumed for
\* it (for a String, those between the two quotes).
C11_LexNeverAbortsAndSlicesTheLexeme ==
  /\ lex_result # Panicked
  /\ (lex_result = Running /\ items # <<>> /\ LastItem.kind = "Ok") =>
       LET type == LastItem.token.type
       IN CASE type.tag = "String" ->
                 type.string = SubSeq(LastLexeme, 2, Len(LastLexeme) - 1)
            [] type.tag = "Identifier" -> type.identifier = LastLexeme
            [] type.tag = "Keyword" -> KeywordSpelling(type.keyword) = LastLexeme
            [] type.tag = "Number" ->
                 ParseF64(LastLexeme) = [ok |-> TRUE, value |-> type.number]
            [] OTHER -> TRUE

\* The source as the next pull finds it once the leading whitespace is
\* skipped.
AtNextLexeme == consume_whitespaces(lexer)

\* The next pull opens a string that no later quote closes.
OpensUnterminatedString ==
  /\ lex_result = Running
  /\ AtNextLexeme.characters # <<>>
  /\ Head(AtNextLexeme.characters) = QUOTE
  /\ \A i \in 2..Len(AtNextLexeme.characters) :
       AtNextLexeme.characters[i] # QUOTE

\* C12: the pull that opens an unterminated string yields one
\* UnterminatedString error at the opening quote and consumes the source to
\* its end; with no character left, no pull yields anything more.
C12_UnterminatedStringIsOneError ==
  [][/\ OpensUnterminatedString =>
          /\ items' = Append(items, ItemErr(AtNextLexeme.position,
                                            "UnterminatedString"))
          /\ lexer'.characters = <<>>
          /\ lex_result' = Running
     /\ lexer.characters = <<>> => items' = items]_vars

\* ------------------------------------------------------------------------
\* Claims about the Source (SourceSpec)
\* ------------------------------------------------------------------------

\* The characters consumed so far.
ConsumedText ==
  SubSeq(lexer.source, 1, Len(lexer.source) - Len(lexer.characters))

Newlines(text) == {i \in 1..Len(text) : text[i] = LF}

\* The number of characters of the text after its last newline.
SinceLastNewline(text) ==
  Len(text) - (CHOOSE i \in Newlines(text) \cup {0} :
                 \A j \in Newlines(text) : j <= i)

\* The methods that consume a character only if a predicate holds of it.
ConditionalCalls ==
  {"next_if", "consume_if", "next_if_character", "consume_if_character",
   "next_if_not_character", "consume_if_not_character"}

\* C13: after any calls of the Source's methods the position's index is
\* the number of characters consumed, its line the number of newlines
\* consumed and its column the number of characters consumed since the last
\* newline; no call decreases index or line; peek, and a conditional call
\* that returns nothing, leave position and remaining characters as they
\* were.
C13_PositionCountsConsumedCharacters ==
  /\ [](/\ lexer.position.index = Len(ConsumedText)
        /\ lexer.position.line = Cardinality(Newlines(ConsumedText))
        /\ lexer.position.column = SinceLastNewline(ConsumedText))
  /\ [][/\ lexer'.position.index >= lexer.position.index
        /\ lexer'.position.line >= lexer.position.line
        /\ source_call'.op = "peek" => lexer' = lexer
        /\ (source_call'.op \in ConditionalCalls /\ ~source_call'.some) =>
             lexer' = lexer]_vars

\* A newline and then a character have been consumed, and a conditional
\* call has then refused the next character.
C13_Witness ==
  /\ lexer.position.line = 1
  /\ lexer.position.column = 1
  /\ lexer.characters # <<>>
  /\ source_call.op = "next_if"
  /\ ~source_call.some

\* ------------------------------------------------------------------------
\* Claims about the two-character operators (LexerSpec)
\* ------------------------------------------------------------------------

C14_Characters == {"!", "=", ">", "<"}

\* The token type C14 gives the character alone.
C14_OneCharacterType(character) ==
  CASE character = "!" -> "Not"
    [] character = "=" -> "Assign"
    [] character = ">" -> "GreaterThan"
    [] character = "<" -> "LessThan"

\* The token type C14 gives the character followed by '='.
C14_TwoCharacterType(character) ==
  CASE character = "!" -> "NotEquals"
    [] character = "=" -> "Equals"
    [] character = ">" -> "GreaterThanOrEquals"
    [] character = "<" -> "LessThanOrEquals"

\* The next pull reads one of '!', '=', '>', '<'.
ReadsOperatorStart ==
  /\ lex_result = Running
  /\ AtNextLexeme.characters # <<>>
  /\ Head(AtNextLexeme.characters) \in C14_Characters

\* C14: a pull that reads '!', '=', '>' or '<' followed by '=' yields the
\* two-character token at the first character and consumes both; followed
\* by anything else, or by nothing, it yields the one-character token and
\* consumes that character only.  Hence "===" lexes to Equals at offset 0
\* and Assign at offset 2.
C14_GreedyTwoCharacterOperators ==
  /\ [][ReadsOperatorStart =>
          LET rest == AtNextLexeme.characters
              followed == Len(rest) >= 2 /\ rest[2] = "="
              type == IF followed THEN C14_TwoCharacterType(rest[1])
                      ELSE C14_OneCharacterType(rest[1])
          IN /\ items' = Append(items, ItemOk(Token_new(Plain(type),
                                                        AtNextLexeme.position)))
             /\ lexer'.characters =
                  SubSeq(rest, IF followed THEN 3 ELSE 2, Len(rest))]_vars
  /\ []((lex_result # Running /\ lexer.source = <<"=", "=", "=">>) =>
          /\ lex_result.kind = "Ok"
          /\ Len(lex_result.tokens) = 2
          /\ lex_result.tokens[1].type = Plain("Equals")
          /\ lex_result.tokens[1].position.index = 0
          /\ lex_result.tokens[2].type = Plain("Assign")
          /\ lex_result.tokens[2].position.index = 2)

\* "===" has been lexed to two tokens.
C14_Witness ==
  /\ lex_result.kind = "Ok"
  /\ lexer.source = <<"=", "=", "=">>
  /\ Len(lex_result.tokens) = 2

\* ------------------------------------------------------------------------
\* Further claims about the parser (ParserSpec)
\* ------------------------------------------------------------------------

\* C15: when parse returns Ok the parser has consumed every token of the
\* slice it was built over.
C15_OkParseConsumesEveryToken ==
  (ParseReturned /\ parse_result.kind = "Ok") => parser.rest = <<>>

\* ------------------------------------------------------------------------
\* Claims about the progress of the lexer (LexerSpec)
\* ------------------------------------------------------------------------

\* The offsets of the items yielded so far, tokens and errors alike.
ItemOffsets ==
  [i \in 1..Len(items) |->
     IF items[i].kind = "Ok" THEN items[i].token.position.index
     ELSE items[i].error.position.index]

\* What C16 says of one pull: a pull that yields an item leaves fewer
\* characters than it found, and a pull that yields none leaves no
\* character.
C16_Pull ==
  /\ items' # items => Len(lexer'.characters) < Len(lexer.characters)
  /\ (lex_result = Running /\ items' = items) => lexer'.characters = <<>>

\* What C16 says of the end of lex: the whole source is consumed and the
\* items were yielded at strictly increasing offsets.
C16_End ==
  lex_result # Running =>
    /\ lexer.characters = <<>>
    /\ \A i, j \in 1..Len(items) : i < j => ItemOffsets[i] < ItemOffsets[j]

\* C16: every pull that yields a token or an error consumes at least one
\* character and the iterator ends only at the end of input, so that lex,
\* which pulls until the iterator ends, ends after at most as many items as
\* the source has characters, with the whole source consumed and the items
\* at strictly increasing offsets.
C16_EveryPullConsumesUntilEndOfInput ==
  [][C16_Pull]_vars /\ []C16_End

====
